---- MODULE Spec2Model ----
(***************************************************************************)
(* A model of the imi S-expression interpreter (src/main.rs): tokenize,    *)
(* parse / read_list / read_atom, eval, and the default environment with   *)
(* its two native functions `+` and `-`.                                   *)
(*                                                                         *)
(* Representation.  A Rust String is a sequence of one-character strings   *)
(* ("(+ 1)" is <<"(", "+", " ", "1", ")">>), so tokenize and read_atom     *)
(* work on characters as the code does.  An f64 is modelled by an integer: *)
(* every number of the model is a small integer, on which f64 arithmetic   *)
(* is exact.  An Error::Reason(String) is modelled by the sequence of the  *)
(* pieces its string is built from: a literal is one piece, and            *)
(* format!("unbound symbol: {}", s) is the literal piece followed by the   *)
(* characters of s.                                                        *)
(***************************************************************************)
EXTENDS Integers, Sequences, FiniteSets, TLC

VARIABLES pc, src, tokens, parsed, env, result, fn, args

vars == <<pc, src, tokens, parsed, env, result, fn, args>>

(***************************************************************************)
(* Bounds of the model.                                                    *)
(***************************************************************************)
MaxTextLen == 4
MaxTokens == 6
MaxNodes == 5
MaxArgs == 3

(***************************************************************************)
(* enum Expr                                                               *)
(***************************************************************************)
Number(n) == [tag |-> "Number", n |-> n]
Symbol(s) == [tag |-> "Symbol", s |-> s]
List(l) == [tag |-> "List", list |-> l]
Func(f) == [tag |-> "Func", f |-> f]

(***************************************************************************)
(* Result<_, Error>: Ok(v) and Err(Error::Reason(r))                       *)
(***************************************************************************)
Ok(v) == [ok |-> TRUE, val |-> v]
Err(r) == [ok |-> FALSE, reason |-> r]

(***************************************************************************)
(* Characters                                                              *)
(***************************************************************************)
Whitespace == {" ", "\t", "\n"}
Digits == {"0", "1", "2", "3", "4", "5", "6", "7", "8", "9"}
DigitVal(c) ==
    CASE c = "0" -> 0 [] c = "1" -> 1 [] c = "2" -> 2 [] c = "3" -> 3
      [] c = "4" -> 4 [] c = "5" -> 5 [] c = "6" -> 6 [] c = "7" -> 7
      [] c = "8" -> 8 [] c = "9" -> 9

(***************************************************************************)
(* str::replace(from, to) for a one-character pattern                      *)
(***************************************************************************)
RECURSIVE replace(_, _, _)
replace(s, from, to) ==
    IF s = <<>> THEN <<>>
    ELSE (IF Head(s) = from THEN to ELSE <<Head(s)>>) \o replace(Tail(s), from, to)

(***************************************************************************)
(* str::split_whitespace: the maximal runs of non-whitespace characters,   *)
(* in order; `cur` is the run being read.                                  *)
(***************************************************************************)
RECURSIVE split_from(_, _)
split_from(s, cur) ==
    LET flush == IF cur = <<>> THEN <<>> ELSE <<cur>>
    IN  IF s = <<>> THEN flush
        ELSE IF Head(s) \in Whitespace THEN flush \o split_from(Tail(s), <<>>)
        ELSE split_from(Tail(s), Append(cur, Head(s)))

split_whitespace(s) == split_from(s, <<>>)

\* A tokenize that pads only the opening parenthesis.
tokenize_open_only(s) ==
    split_whitespace(replace(s, "(", <<" ", "(", " ">>))

(***************************************************************************)
(* fn tokenize                                                             *)
(***************************************************************************)
tokenize(s) ==
    split_whitespace(replace(replace(s, "(", <<" ", "(", " ">>), ")", <<" ", ")", " ">>))

(***************************************************************************)
(* token.parse::<f64>() on the characters of the model: an optional sign   *)
(* followed by one or more decimal digits is a number, anything else made  *)
(* of these characters is not.  (The characters '.', 'e', 'E', 'i', 'n',   *)
(* 'a' of the rest of the f64 grammar are outside the model's alphabet.)   *)
(***************************************************************************)
RECURSIVE digits_value(_, _)
digits_value(ds, acc) ==
    IF ds = <<>> THEN acc ELSE digits_value(Tail(ds), 10 * acc + DigitVal(Head(ds)))

parse_f64(token) ==
    LET signed == token # <<>> /\ Head(token) \in {"+", "-"}
        ds == IF signed THEN Tail(token) ELSE token
    IN  IF ds # <<>> /\ \A i \in 1..Len(ds) : ds[i] \in Digits
        THEN [ok |-> TRUE,
              val |-> IF signed /\ Head(token) = "-"
                      THEN 0 - digits_value(ds, 0) ELSE digits_value(ds, 0)]
        ELSE [ok |-> FALSE, val |-> 0]

(***************************************************************************)
(* fn read_atom                                                            *)
(***************************************************************************)
read_atom(token) ==
    LET float == parse_f64(token)
    IN  IF float.ok THEN Number(float.val) ELSE Symbol(token)

(***************************************************************************)
(* fn parse, fn read_list.  Ok((expr, rest)) is [ok, expr, rest].          *)
(* read_loop is the `while let` loop of read_list, with its two locals.    *)
(***************************************************************************)
RECURSIVE parse(_)
RECURSIVE read_loop(_, _)

read_list(toks) == read_loop(toks, <<>>)

\* A parse that skips a ")" met where an expression is expected.
parse_skip_close(toks) ==
    IF toks = <<>> THEN Err(<<"empty input">>)
    ELSE LET token == Head(toks)
             rest == Tail(toks)
         IN  IF token = <<"(">> THEN read_list(rest)
             ELSE IF token = <<")">> THEN parse(rest)
             ELSE [ok |-> TRUE, expr |-> read_atom(token), rest |-> rest]

parse(toks) ==
    IF toks = <<>> THEN Err(<<"empty input">>)
    ELSE LET token == Head(toks)
             rest == Tail(toks)
         IN  IF token = <<"(">> THEN read_list(rest)
             ELSE IF token = <<")">> THEN Err(<<"unexpected )">>)
             ELSE [ok |-> TRUE, expr |-> read_atom(token), rest |-> rest]

\* A read_list that returns `tokens` where the code returns `rest`.
read_loop_keep_close(toks, list) ==
    IF toks = <<>> THEN Err(<<"could not parse list">>)
    ELSE IF Head(toks) = <<")">>
         THEN [ok |-> TRUE, expr |-> List(list), rest |-> toks]
         ELSE LET r == parse(toks)
              IN  IF r.ok THEN read_loop(r.rest, Append(list, r.expr)) ELSE r

read_loop(toks, list) ==
    IF toks = <<>> THEN Err(<<"could not parse list">>)
    ELSE IF Head(toks) = <<")">>
         THEN [ok |-> TRUE, expr |-> List(list), rest |-> Tail(toks)]
         ELSE LET r == parse(toks)
              IN  IF r.ok THEN read_loop(r.rest, Append(list, r.expr)) ELSE r

(***************************************************************************)
(* The native functions of default_env.  add_loop and sub_loop are the     *)
(* `for arg in ...` loops, with the accumulator `sum`.                     *)
(***************************************************************************)
RECURSIVE add_loop(_, _)
\* A `+` that passes over the arguments that are not numbers.
add_loop_skip(as, sum) ==
    IF as = <<>> THEN Ok(Number(sum))
    ELSE IF Head(as).tag = "Number" THEN add_loop(Tail(as), sum + Head(as).n)
    ELSE add_loop(Tail(as), sum)

add_loop(as, sum) ==
    IF as = <<>> THEN Ok(Number(sum))
    ELSE IF Head(as).tag = "Number" THEN add_loop(Tail(as), sum + Head(as).n)
    ELSE Err(<<"+ expects numbers">>)

add(as) == add_loop(as, 0)

RECURSIVE sub_loop(_, _)
sub_loop(as, sum) ==
    IF as = <<>> THEN Ok(Number(sum))
    ELSE IF Head(as).tag = "Number" THEN sub_loop(Tail(as), sum - Head(as).n)
    ELSE Err(<<"- expects numbers">>)

\* A `-` that negates a single argument, as Lisp's does.
sub_negate(as) ==
    IF as # <<>> /\ as[1].tag = "Number"
    THEN IF Len(as) = 1 THEN Ok(Number(0 - as[1].n)) ELSE sub_loop(Tail(as), as[1].n)
    ELSE Err(<<"- expects numbers">>)

sub(as) ==
    IF as # <<>> /\ as[1].tag = "Number" THEN sub_loop(Tail(as), as[1].n)
    ELSE Err(<<"- expects numbers">>)

\* Calling the fn pointer held by Expr::Func.
native(f, as) == IF f = "add" THEN add(as) ELSE sub(as)

(***************************************************************************)
(* struct Env: parent is an Option, <<>> for None and <<e>> for Some(e);   *)
(* bindings is the HashMap, a function from the bound names.               *)
(***************************************************************************)
Env(parent, bindings) == [parent |-> parent, bindings |-> bindings]

default_env ==
    Env(<<>>, (<<"+">> :> Func("add")) @@ (<<"-">> :> Func("sub")))

(***************************************************************************)
(* fn eval.  The value carries, beside the Result, the log of what the     *)
(* evaluation did, in order: an "eval" entry for every call of eval (with  *)
(* its expression) and a "call" entry for every native function invoked    *)
(* (with the function and its arguments).                                  *)
(***************************************************************************)
Entered(expr) == [op |-> "eval", expr |-> expr, args |-> <<>>]
Called(f, as) == [op |-> "call", expr |-> Func(f), args |-> as]

RECURSIVE eval(_, _)
RECURSIVE eval_args(_, _)

\* A lookup in which a name that is not bound stands for itself.
lookup_self_evaluating(e, s) ==
    IF s \in DOMAIN e.bindings THEN Ok(e.bindings[s]) ELSE Ok(Symbol(s))

\* env.bindings.get(&s).cloned().ok_or_else(...)
lookup(e, s) ==
    IF s \in DOMAIN e.bindings THEN Ok(e.bindings[s])
    ELSE Err(<<"unbound symbol: ">> \o s)

\* An argument evaluation that evaluates every element before it looks for a
\* failure (a collect into a Vec of Results first).
eval_args_eager(rest, e) ==
    IF rest = <<>> THEN [res |-> Ok(<<>>), log |-> <<>>]
    ELSE LET first == eval(Head(rest), e)
             others == eval_args(Tail(rest), e)
         IN  [res |-> IF ~first.res.ok THEN first.res
                      ELSE IF others.res.ok
                           THEN Ok(<<first.res.val>> \o others.res.val)
                           ELSE others.res,
              log |-> first.log \o others.log]

\* rest.iter().cloned().map(|e| eval(e, env)).collect::<Result<_, _>>():
\* the elements are evaluated in order until one fails.
eval_args(rest, e) ==
    IF rest = <<>> THEN [res |-> Ok(<<>>), log |-> <<>>]
    ELSE LET first == eval(Head(rest), e)
         IN  IF ~first.res.ok THEN first
             ELSE LET others == eval_args(Tail(rest), e)
                  IN  [res |-> IF others.res.ok
                               THEN Ok(<<first.res.val>> \o others.res.val)
                               ELSE others.res,
                       log |-> first.log \o others.log]

\* A call that evaluates the arguments before it looks at the operator.
eval_call_args_first(func, rest, e) ==
    LET collected == eval_args(rest, e)
    IN  IF ~func.res.ok THEN func
        ELSE IF ~collected.res.ok
             THEN [res |-> collected.res, log |-> func.log \o collected.log]
             ELSE IF func.res.val.tag = "Func"
                  THEN [res |-> native(func.res.val.f, collected.res.val),
                        log |-> func.log \o collected.log
                                \o <<Called(func.res.val.f, collected.res.val)>>]
                  ELSE [res |-> Err(<<"not a function">>),
                        log |-> func.log \o collected.log]

\* match eval(func.clone(), env) { ... }, `func` being the evaluation of the
\* list's first element and `rest` the other elements.
eval_call(func, rest, e) ==
    IF func.res.ok /\ func.res.val.tag = "Func"
    THEN LET collected == eval_args(rest, e)
         IN  IF collected.res.ok
             THEN [res |-> native(func.res.val.f, collected.res.val),
                   log |-> func.log \o collected.log
                           \o <<Called(func.res.val.f, collected.res.val)>>]
             ELSE [res |-> collected.res, log |-> func.log \o collected.log]
    ELSE IF func.res.ok
         THEN [res |-> Err(<<"not a function">>), log |-> func.log]
         ELSE func

\* A list arm in which the empty list evaluates to itself.
eval_list_nil(list, e) ==
    IF list = <<>> THEN [res |-> Ok(List(<<>>)), log |-> <<>>]
    ELSE eval_call(eval(Head(list), e), Tail(list), e)

\* The Expr::List arm: split_first, or "empty list".
eval_list(list, e) ==
    IF list = <<>> THEN [res |-> Err(<<"empty list">>), log |-> <<>>]
    ELSE eval_call(eval(Head(list), e), Tail(list), e)

eval(expr, e) ==
    LET here == <<Entered(expr)>>
    IN  CASE expr.tag = "Number" -> [res |-> Ok(expr), log |-> here]
          [] expr.tag = "Symbol" -> [res |-> lookup(e, expr.s), log |-> here]
          [] expr.tag = "List" ->
                LET r == eval_list(expr.list, e)
                IN  [res |-> r.res, log |-> here \o r.log]
          [] expr.tag = "Func" -> [res |-> Ok(expr), log |-> here]

(***************************************************************************)
(* Inputs.                                                                 *)
(***************************************************************************)
RECURSIVE SeqsUpTo(_, _)
SeqsUpTo(S, n) ==
    IF n = 0 THEN {<<>>}
    ELSE LET shorter == SeqsUpTo(S, n - 1)
         IN  shorter \cup {Append(q, x) : q \in {r \in shorter : Len(r) = n - 1}, x \in S}

\* The texts of the examples of main and of the documentation.
ExampleTexts ==
    { <<"(", "+", " ", "1", " ", "2", ")">>,
      <<"(", "-", " ", "1", "0", " ", "1", " ", "2", ")">>,
      <<"(", "+", " ", "1", " ", "f", "o", "o", ")">>,
      <<"(", "+", " ", "1", " ", "+", ")">>,
      <<"(", "+", "1", " ", "2", ")">>,
      <<"(", "+", " ", "1", " ", "2">>,
      <<"(", "1", " ", "2", " ", "3", ")">> }

TextChars == {"(", ")", " ", "\n", "1", "+", "x"}
Texts == SeqsUpTo(TextChars, MaxTextLen) \cup ExampleTexts

TokenKinds == {<<"(">>, <<")">>, <<"1">>, <<"x">>}
TokenSeqs == SeqsUpTo(TokenKinds, MaxTokens)

\* Expressions by their number of nodes (an atom or a list is one node).
Atoms == {Number(1), Symbol(<<"+">>), Symbol(<<"x">>), Symbol(<<"y">>)}

\* Grow(n, E, Q): E[k] is the set of the expressions of k nodes, Q[m + 1] the
\* set of the sequences of expressions of m nodes in all, built size by size.
RECURSIVE Grow(_, _, _)
Grow(n, E, Q) ==
    IF Len(E) >= n THEN E
    ELSE LET s == Len(E) + 1
             E2 == Append(E, IF s = 1 THEN Atoms \cup {List(<<>>)}
                             ELSE {List(l) : l \in Q[s]})
             seqs == UNION { {<<x>> \o q : x \in E2[k], q \in Q[s - k + 1]}
                             : k \in 1..s }
         IN  Grow(n, E2, Append(Q, seqs))

ExprsBySize == Grow(MaxNodes, <<>>, <<{<<>>}>>)
Exprs == UNION {ExprsBySize[n] : n \in 1..MaxNodes}

\* Environments: the default one, and chains built on the same struct.
Envs ==
    { default_env,
      Env(<<default_env>>, <<"x">> :> Number(2)),
      Env(<<Env(<<>>, <<"x">> :> Number(2))>>,
          (<<"+">> :> Func("add")) @@ (<<"-">> :> Func("sub"))
            @@ (<<"y">> :> List(<<>>))),
      Env(<<>>, (<<"+">> :> Func("sub")) @@ (<<"x">> :> Number(2))
                  @@ (<<"y">> :> Symbol(<<"x">>))) }

\* The arguments a native function may be handed.
ArgValues ==
    { Number(0), Number(1), Number(2), Number(10), Number(0 - 3),
      Symbol(<<"x">>), List(<<>>), Func("add") }
ArgSeqs == SeqsUpTo(ArgValues, MaxArgs)

(***************************************************************************)
(* The state machine: a host runs the pipeline of main (tokenize, parse,   *)
(* eval), or enters it at a later stage with tokens or an expression of    *)
(* its own, or calls a native function.                                    *)
(***************************************************************************)
\* A text and an environment are given.
Init ==
    /\ pc = "start"
    /\ src \in Texts
    /\ env \in Envs
    /\ tokens = <<>> /\ parsed = <<>> /\ result = <<>>
    /\ fn = "none" /\ args = <<>>

\* main's pipeline on the example texts, in default_env.
InitMain ==
    /\ pc = "start"
    /\ src \in ExampleTexts
    /\ env = default_env
    /\ tokens = <<>> /\ parsed = <<>> /\ result = <<>>
    /\ fn = "none" /\ args = <<>>

\* Tokens are given.
InitParse ==
    /\ pc = "tokenized"
    /\ tokens \in TokenSeqs
    /\ env = default_env
    /\ src = <<>> /\ parsed = <<>> /\ result = <<>>
    /\ fn = "none" /\ args = <<>>

\* An expression and an environment are given.
InitEval ==
    /\ pc = "parsed"
    /\ \E x \in Exprs : parsed = [ok |-> TRUE, expr |-> x, rest |-> <<>>]
    /\ env \in Envs
    /\ src = <<>> /\ tokens = <<>> /\ result = <<>>
    /\ fn = "none" /\ args = <<>>

\* A native function and its arguments are given.
InitNative ==
    /\ pc = "call"
    /\ fn \in {"add", "sub"}
    /\ args \in ArgSeqs
    /\ env = default_env
    /\ src = <<>> /\ tokens = <<>> /\ parsed = <<>> /\ result = <<>>

Tokenize ==
    /\ pc = "start"
    /\ tokens' = tokenize(src)
    /\ pc' = "tokenized"
    /\ UNCHANGED <<src, parsed, env, result, fn, args>>

Parse ==
    /\ pc = "tokenized"
    /\ parsed' = parse(tokens)
    /\ pc' = "parsed"
    /\ UNCHANGED <<src, tokens, env, result, fn, args>>

\* main evaluates the expression of a successful parse.
Eval ==
    /\ pc = "parsed"
    /\ parsed.ok
    /\ result' = eval(parsed.expr, env)
    /\ pc' = "evaluated"
    /\ UNCHANGED <<src, tokens, parsed, env, fn, args>>

Invoke ==
    /\ pc = "call"
    /\ result' = [res |-> native(fn, args), log |-> <<Called(fn, args)>>]
    /\ pc' = "returned"
    /\ UNCHANGED <<src, tokens, parsed, env, fn, args>>

Next == Tokenize \/ Parse \/ Eval
NextParse == Parse
NextEval == Eval
NextNative == Invoke \/ Tokenize \/ Parse \/ Eval

Spec == Init /\ [][Next]_vars
SpecParse == InitParse /\ [][NextParse]_vars
SpecEval == InitEval /\ [][NextEval]_vars
SpecNative == (InitNative \/ InitMain) /\ [][NextNative]_vars

(***************************************************************************)
(* Operators the properties are stated with.                               *)
(***************************************************************************)
RECURSIVE Flatten(_)
Flatten(seqs) == IF seqs = <<>> THEN <<>> ELSE Head(seqs) \o Flatten(Tail(seqs))

IsSpace(c) == c \in Whitespace
IsParen(c) == c \in {"(", ")"}
WithoutWhitespace(s) == SelectSeq(s, LAMBDA c : ~IsSpace(c))

\* The nesting depth after the first k tokens.
Depth(toks, k) ==
    Cardinality({i \in 1..k : toks[i] = <<"(">>})
      - Cardinality({i \in 1..k : toks[i] = <<")">>})

\* The lengths of the prefixes in which the parentheses are balanced.
BalancedAt(toks) == {k \in 1..Len(toks) : Depth(toks, k) = 0}

Least(S) == CHOOSE k \in S : \A j \in S : k <= j

AllNumbers(as) == \A i \in 1..Len(as) : as[i].tag = "Number"

RECURSIVE SumFrom(_, _)
SumFrom(as, i) == IF i > Len(as) THEN 0 ELSE as[i].n + SumFrom(as, i + 1)

\* The lookup that walks the chain of parents.
RECURSIVE ChainLookup(_, _)
ChainLookup(e, s) ==
    IF s \in DOMAIN e.bindings THEN Ok(e.bindings[s])
    ELSE IF e.parent # <<>> THEN ChainLookup(e.parent[1], s)
    ELSE Err(<<"unbound symbol: ">> \o s)

TextPlus12 == <<"(", "+", " ", "1", " ", "2", ")">>
TextMinus == <<"(", "-", " ", "1", "0", " ", "1", " ", "2", ")">>
TextPlusFoo == <<"(", "+", " ", "1", " ", "f", "o", "o", ")">>
TextPlusPlus == <<"(", "+", " ", "1", " ", "+", ")">>
UnboundFoo == Err(<<"unbound symbol: ", "f", "o", "o">>)

(***************************************************************************)
(* C1 as stated: evaluating the parse of "(+ 1 foo)" in the default        *)
(* environment fails with "+ expects numbers".                             *)
(***************************************************************************)
C1_PlusFooExpectsNumbers ==
    (pc = "evaluated" /\ src = TextPlusFoo /\ env = default_env)
        => result.res = Err(<<"+ expects numbers">>)

(***************************************************************************)
(* C1 amended: evaluating the parse of "(+ 1 foo)" in the default          *)
(* environment fails with "unbound symbol: foo", the failure of the        *)
(* argument's own evaluation, and `+` is not invoked; `+` reports          *)
(* "+ expects numbers" for an argument that evaluates to something that is *)
(* not a number, as in "(+ 1 +)".                                          *)
(***************************************************************************)
C1_PlusFooUnbound ==
    (pc = "evaluated" /\ env = default_env)
        => /\ src = TextPlusFoo
                => /\ result.res = UnboundFoo
                   /\ \A i \in 1..Len(result.log) : result.log[i].op # "call"
           /\ src = TextPlusPlus => result.res = Err(<<"+ expects numbers">>)

C1_Witness ==
    /\ pc = "evaluated" /\ src = TextPlusFoo /\ env = default_env
    /\ parsed.expr = List(<<Symbol(<<"+">>), Number(1), Symbol(<<"f", "o", "o">>)>>)
    /\ ~result.res.ok

(***************************************************************************)
(* C2: in a call whose operator evaluates to a native function, the        *)
(* arguments are evaluated left to right up to the first that fails; the   *)
(* result is then that failure, nothing to its right is evaluated and the  *)
(* function is not invoked.  The function is invoked only when every       *)
(* argument succeeded, with the values in their order.                     *)
(***************************************************************************)
C2_ArgumentsFailFast ==
    (pc = "evaluated" /\ parsed.expr.tag = "List" /\ parsed.expr.list # <<>>)
        => LET func == eval(Head(parsed.expr.list), env)
               rest == Tail(parsed.expr.list)
               each == [i \in 1..Len(rest) |-> eval(rest[i], env)]
               failing == {i \in 1..Len(rest) : ~each[i].res.ok}
               LogsTo(k) == Flatten([i \in 1..k |-> each[i].log])
               begin == <<Entered(parsed.expr)>> \o func.log
           IN  (func.res.ok /\ func.res.val.tag = "Func")
                 => IF failing # {}
                    THEN /\ result.res = each[Least(failing)].res
                         /\ result.log = begin \o LogsTo(Least(failing))
                    ELSE LET values == [i \in 1..Len(rest) |-> each[i].res.val]
                         IN  /\ result.res = native(func.res.val.f, values)
                             /\ result.log = begin \o LogsTo(Len(rest))
                                               \o <<Called(func.res.val.f, values)>>

\* (+ x y) in default_env: x fails first, y is never evaluated.
C2_Witness ==
    /\ pc = "evaluated" /\ env = default_env
    /\ parsed.expr = List(<<Symbol(<<"+">>), Symbol(<<"x">>), Symbol(<<"y">>)>>)
    /\ result.res = Err(<<"unbound symbol: ", "x">>)
    /\ Len(result.log) = 3

(***************************************************************************)
(* C3: when parse succeeds, the remaining tokens are a proper suffix of    *)
(* the input and the consumed prefix is one expression: one token for an   *)
(* atom, the shortest prefix with balanced parentheses for a "(".          *)
(***************************************************************************)
C3_ParseConsumesOneExpression ==
    (pc = "parsed" /\ parsed.ok)
        => LET n == Len(tokens)
               k == n - Len(parsed.rest)
           IN  /\ k >= 1
               /\ parsed.rest = SubSeq(tokens, k + 1, n)
               /\ IF tokens[1] = <<"(">>
                  THEN BalancedAt(tokens) # {} /\ k = Least(BalancedAt(tokens))
                  ELSE k = 1

\* ( ( ) 1 ) followed by a stray ")".
C3_Witness ==
    /\ pc = "parsed"
    /\ tokens = <<<<"(">>, <<"(">>, <<")">>, <<"1">>, <<")">>, <<")">>>>
    /\ parsed.ok
    /\ parsed.expr = List(<<List(<<>>), Number(1)>>)
    /\ parsed.rest = <<<<")">>>>

(***************************************************************************)
(* C4: parse fails exactly when the tokens are empty ("empty input"), the  *)
(* first token is ")" ("unexpected )"), or the first token is "(" and the  *)
(* tokens end before its matching ")" ("could not parse list").            *)
(***************************************************************************)
C4_ParseFailures ==
    pc = "parsed"
        => IF tokens = <<>> THEN parsed = Err(<<"empty input">>)
           ELSE IF tokens[1] = <<")">> THEN parsed = Err(<<"unexpected )">>)
           ELSE IF tokens[1] = <<"(">> /\ BalancedAt(tokens) = {}
                THEN parsed = Err(<<"could not parse list">>)
                ELSE parsed.ok

\* An inner list is closed, the outer one is not.
C4_Witness ==
    /\ pc = "parsed"
    /\ tokens = <<<<"(">>, <<"(">>, <<"1">>, <<")">>, <<"x">>>>
    /\ parsed = Err(<<"could not parse list">>)

(***************************************************************************)
(* C5: every token of tokenize is "(" or ")" or a non-empty chunk without  *)
(* parenthesis and whitespace, and the tokens concatenated are the input   *)
(* without its whitespace; a text of whitespace only gives no token.       *)
(***************************************************************************)
C5_TokenizeShape ==
    pc = "tokenized"
        => /\ \A i \in 1..Len(tokens) :
                \/ tokens[i] = <<"(">>
                \/ tokens[i] = <<")">>
                \/ /\ tokens[i] # <<>>
                   /\ \A j \in 1..Len(tokens[i]) :
                        ~IsParen(tokens[i][j]) /\ ~IsSpace(tokens[i][j])
           /\ Flatten(tokens) = WithoutWhitespace(src)
           /\ WithoutWhitespace(src) = <<>> => tokens = <<>>

\* Parentheses with no whitespace around them.
C5_Witness ==
    /\ pc = "tokenized"
    /\ src = <<"x", "(", "1", ")">>
    /\ tokens = <<<<"x">>, <<"(">>, <<"1">>, <<")">>>>

(***************************************************************************)
(* C6: `-` subtracts from its first argument every later one, in order; a  *)
(* single argument is returned as it is; no argument, or an argument that  *)
(* is not a number, fails with "- expects numbers".  (- 10 1 2) is 7.      *)
(***************************************************************************)
C6_MinusLeftFold ==
    /\ (pc = "returned" /\ fn = "sub")
          => IF args # <<>> /\ AllNumbers(args)
             THEN result.res = Ok(Number(args[1].n - SumFrom(args, 2)))
             ELSE result.res = Err(<<"- expects numbers">>)
    /\ (pc = "evaluated" /\ src = TextMinus) => result.res = Ok(Number(7))

\* (- 2): the argument itself, not its negation.
C6_Witness ==
    /\ pc = "returned" /\ fn = "sub"
    /\ args = <<Number(2)>>
    /\ result.res = Ok(Number(2))

(***************************************************************************)
(* C7: `+` returns the sum of its arguments, 0 for none, and fails with    *)
(* "+ expects numbers" when an argument is not a number.  (+ 1 2) is 3.    *)
(***************************************************************************)
C7_PlusSums ==
    /\ (pc = "returned" /\ fn = "add")
          => IF AllNumbers(args)
             THEN result.res = Ok(Number(SumFrom(args, 1)))
             ELSE result.res = Err(<<"+ expects numbers">>)
    /\ (pc = "evaluated" /\ src = TextPlus12) => result.res = Ok(Number(3))

\* A non-number between two numbers.
C7_Witness ==
    /\ pc = "returned" /\ fn = "add"
    /\ args = <<Number(1), Symbol(<<"x">>), Number(2)>>
    /\ result.res = Err(<<"+ expects numbers">>)

(***************************************************************************)
(* C8: a symbol evaluates to the binding of the nearest environment of the *)
(* chain that binds it, and is unbound only when none does.                *)
(***************************************************************************)
C8_LookupWalksParents ==
    (pc = "evaluated" /\ parsed.expr.tag = "Symbol")
        => result.res = ChainLookup(env, parsed.expr.s)

(***************************************************************************)
(* C9: a call whose operator evaluates to something that is not a native   *)
(* function fails with "not a function" and evaluates none of the other    *)
(* elements; a failure of the operator's evaluation is returned unchanged. *)
(***************************************************************************)
C9_NotAFunction ==
    (pc = "evaluated" /\ parsed.expr.tag = "List" /\ parsed.expr.list # <<>>)
        => LET func == eval(Head(parsed.expr.list), env)
               begin == <<Entered(parsed.expr)>> \o func.log
           IN  /\ (func.res.ok /\ func.res.val.tag # "Func")
                     => /\ result.res = Err(<<"not a function">>)
                        /\ result.log = begin
               /\ ~func.res.ok
                     => /\ result.res = func.res
                        /\ result.log = begin

\* (1 x) in default_env: x is unbound and is not looked up.
C9_Witness ==
    /\ pc = "evaluated" /\ env = default_env
    /\ parsed.expr = List(<<Number(1), Symbol(<<"x">>)>>)
    /\ result.res = Err(<<"not a function">>)

(***************************************************************************)
(* C10: the tokens "(" ")" parse to the empty List with nothing left, and  *)
(* the empty List evaluates to the failure "empty list" in every           *)
(* environment, with no symbol looked up and no native function invoked.   *)
(***************************************************************************)
C10_EmptyList ==
    /\ (pc \in {"parsed", "evaluated"} /\ tokens = <<<<"(">>, <<")">>>>)
          => parsed = [ok |-> TRUE, expr |-> List(<<>>), rest |-> <<>>]
    /\ (pc = "evaluated" /\ parsed.expr = List(<<>>))
          => /\ result.res = Err(<<"empty list">>)
             /\ result.log = <<Entered(List(<<>>))>>

C10_Witness ==
    /\ pc = "evaluated"
    /\ src = <<"(", ")">>
    /\ env # default_env
    /\ ~result.res.ok

====
